---- MODULE Spec2Model ----
(***************************************************************************)
(* Excel form filler: field detection (ExcelProcessor.detect_fields,       *)
(* find_field_cell), the label heuristic (looks_like_label), writable-cell *)
(* resolution (get_writable_cell) and the fill pass (FormFiller.fill).     *)
(*                                                                         *)
(* A text is a sequence of one-character strings.  A cell value is None or *)
(* Str(text).  A coordinate is <<row, col>>; a merge region is             *)
(* <<min_row, min_col, max_row, max_col>>; a target is a coordinate or a   *)
(* region (the code's "B1" and "B1:D1").                                   *)
(***************************************************************************)
EXTENDS Integers, Sequences, FiniteSets, TLC

(* ------------------------------ bounds -------------------------------- *)
\* rows and columns of the loaded sheet that may hold content
NRows == 2
NCols == 3
\* at most this many cells of the loaded sheet hold a value
MaxNonEmpty == 3
\* at most this many merge regions
MaxMerges == 1
\* fill is run at most this many times with the same result and data
MaxFills == 2

(* ------------------------------ config -------------------------------- *)
min_label_length == 2
max_label_length_with_colon == 100
max_label_length_without_colon == 40
min_left_cell_text_length == 10

keywords == <<
    <<"n","o","m","b","r","e">>,
    <<"d","i","r","e","c","c","i","ó","n">>,
    <<"t","e","l","é","f","o","n","o">>,
    <<"t","e","l","e","f","o","n","o">>,
    <<"e","m","a","i","l">>,
    <<"c","o","r","r","e","o">>,
    <<"f","e","c","h","a">>,
    <<"c","ó","d","i","g","o">>,
    <<"c","o","d","i","g","o">>,
    <<"a","c","t","i","v","i","d","a","d">>,
    <<"r","e","p","r","e","s","e","n","t","a","n","t","e">>,
    <<"r","a","z","ó","n">>,
    <<"r","a","z","o","n">>,
    <<"s","o","c","i","a","l">>,
    <<"n","i","t">>,
    <<"r","f","c">>,
    <<"c","u","r","p">>,
    <<"c","i","u","d","a","d">>,
    <<"e","s","t","a","d","o">>,
    <<"p","a","í","s">>,
    <<"p","a","i","s">>,
    <<"c","p">>,
    <<"c","ó","d","i","g","o"," ","p","o","s","t","a","l">>,
    <<"b","a","n","c","o">>,
    <<"c","u","e","n","t","a">>,
    <<"c","l","a","b","e">>,
    <<"s","w","i","f","t">>,
    <<"i","b","a","n">>,
    <<"m","o","n","e","d","a">>,
    <<"m","o","n","t","o">>,
    <<"i","m","p","o","r","t","e">>,
    <<"a","p","e","l","l","i","d","o">>,
    <<"p","a","t","e","r","n","o">>,
    <<"m","a","t","e","r","n","o">>,
    <<"n","a","c","i","m","i","e","n","t","o">>,
    <<"e","d","a","d">>,
    <<"g","é","n","e","r","o">>,
    <<"g","e","n","e","r","o">>,
    <<"o","c","u","p","a","c","i","ó","n">>,
    <<"o","c","u","p","a","c","i","o","n">>,
    <<"p","r","o","f","e","s","i","ó","n">>,
    <<"p","r","o","f","e","s","i","o","n">>,
    <<"e","m","p","r","e","s","a">>,
    <<"p","u","e","s","t","o">>,
    <<"d","o","c","u","m","e","n","t","o">>,
    <<"i","d","e","n","t","i","f","i","c","a","c","i","ó","n">>,
    <<"i","d","e","n","t","i","f","i","c","a","c","i","o","n">>,
    <<"p","a","s","a","p","o","r","t","e">>,
    <<"l","i","c","e","n","c","i","a">>,
    <<"c","o","n","t","a","c","t","o">>,
    <<"e","m","e","r","g","e","n","c","i","a">>,
    <<"p","a","r","e","n","t","e","s","c","o">>,
    <<"b","e","n","e","f","i","c","i","a","r","i","o">>,
    <<"t","i","t","u","l","a","r">>,
    <<"f","i","r","m","a">>,
    <<"f","e","c","h","a"," ","d","e">>,
    <<"l","u","g","a","r"," ","d","e">>,
    <<"h","o","r","a">>,
    <<"f","o","l","i","o">>,
    <<"r","e","f","e","r","e","n","c","i","a">>,
    <<"n","ú","m","e","r","o">>,
    <<"n","u","m","e","r","o">>
>>

(* ------------------------------ text ---------------------------------- *)
Whitespace == {" ", "\t", "\n"}
Digits == {"0", "1", "2", "3", "4", "5", "6", "7", "8", "9"}
UpperChars == <<"A","B","C","D","E","F","G","H","I","J","K","L","M","N","O","P","Q","R","S","T","U","V","W","X","Y","Z","Á","É","Í","Ó","Ú","Ñ">>
LowerChars == <<"a","b","c","d","e","f","g","h","i","j","k","l","m","n","o","p","q","r","s","t","u","v","w","x","y","z","á","é","í","ó","ú","ñ">>

\* str.lower() on one character
LowerChar(ch) ==
    IF \E i \in 1..Len(UpperChars) : UpperChars[i] = ch
    THEN LowerChars[CHOOSE i \in 1..Len(UpperChars) : UpperChars[i] = ch]
    ELSE ch

\* str.lower()
Lower(s) == [i \in 1..Len(s) |-> LowerChar(s[i])]

\* str.lstrip()
RECURSIVE LStrip(_)
LStrip(s) == IF s # <<>> /\ Head(s) \in Whitespace THEN LStrip(Tail(s)) ELSE s

\* str.rstrip()
RECURSIVE RStrip(_)
RStrip(s) ==
    IF s # <<>> /\ s[Len(s)] \in Whitespace THEN RStrip(SubSeq(s, 1, Len(s) - 1)) ELSE s

\* str.strip()
Strip(s) == RStrip(LStrip(s))

\* str.endswith(':')
EndsWithColon(s) == s # <<>> /\ s[Len(s)] = ":"

\* str.startswith(p)
StartsWith(s, p) == Len(s) >= Len(p) /\ SubSeq(s, 1, Len(p)) = p

\* p in s (substring)
Contains(s, p) ==
    \E i \in 1..(Len(s) - Len(p) + 1) : SubSeq(s, i, i + Len(p) - 1) = p

\* re.search(r'\d+', s)
HasDigit(s) == \E i \in 1..Len(s) : s[i] \in Digits

\* re.search(r'\d{3,}', s)
HasThreeDigits(s) ==
    \E i \in 1..(Len(s) - 2) : s[i] \in Digits /\ s[i+1] \in Digits /\ s[i+2] \in Digits

(* ------------------------------ values -------------------------------- *)
None == [t |-> "none"]
Str(s) == [t |-> "str", s |-> s]
IsStr(v) == v.t = "str"
\* a number (int)
Num(n) == [t |-> "num", n |-> n]
\* True or False
Bool(b) == [t |-> "bool", b |-> b]
\* a list of values
List(items) == [t |-> "list", items |-> items]
\* a dict: its items, <<key text, value>>, in insertion order
Dict(pairs) == [t |-> "dict", pairs |-> pairs]

\* Python truthiness of a cell value: None and "" are falsy
Truthy(v) == IsStr(v) /\ v.s # <<>>

(* --------------------------- label heuristic -------------------------- *)
HasKeyword(text_lower) == \E k \in 1..Len(keywords) : Contains(text_lower, keywords[k])

HasMailKeyword(text_lower) ==
    \/ Contains(text_lower, <<"e","m","a","i","l">>)
    \/ Contains(text_lower, <<"c","o","r","r","e","o">>)
    \/ Contains(text_lower, <<"m","a","i","l">>)

StartsLikeUrl(text_lower) ==
    \/ StartsWith(text_lower, <<"h","t","t","p">>)
    \/ StartsWith(text_lower, <<"w","w","w">>)

\* faulty variant: a keyword is required even with a colon
looks_like_label_KeywordRequired(raw) ==
    LET text == Strip(raw)
    IN  /\ Len(text) >= min_label_length
        /\ HasKeyword(Lower(text))
        /\ Len(text) <= max_label_length_without_colon

\* looks_like_label on a str argument
looks_like_label(raw) ==
    LET text == Strip(raw)
        text_lower == Lower(text)
        ends_with_colon == EndsWithColon(RStrip(text))
        has_keyword == HasKeyword(text_lower)
    IN  IF raw = <<>> THEN FALSE
        ELSE IF Len(text) < min_label_length THEN FALSE
        ELSE IF ~(ends_with_colon \/ has_keyword) THEN FALSE
        ELSE IF ends_with_colon THEN
            IF Len(text) > max_label_length_with_colon THEN FALSE
            ELSE IF Contains(text, <<"@">>) /\ ~HasMailKeyword(text_lower) THEN FALSE
            ELSE IF StartsLikeUrl(text_lower) THEN FALSE
            ELSE TRUE
        ELSE IF Len(text) > max_label_length_without_colon THEN FALSE
        ELSE IF HasDigit(text) /\ text[1] \notin Digits /\ text[Len(text)] \notin Digits
            THEN FALSE
        ELSE IF /\ Contains(text, <<"@">>)
                /\ ~Contains(text_lower, <<"e","m","a","i","l">>)
                /\ ~Contains(text_lower, <<"c","o","r","r","e","o">>) THEN FALSE
        ELSE IF StartsLikeUrl(text_lower) THEN FALSE
        ELSE IF HasThreeDigits(text) THEN FALSE
        ELSE TRUE

(* ------------------------------ sheet --------------------------------- *)
\* The loaded sheet holds content in rows 1..NRows and columns 1..NCols.  A
\* cell next to the content (one row below, one column to the right) does not
\* exist until worksheet.cell() creates it, with no value.
Coords == (1..(NRows + 1)) \X (1..(NCols + 1))
ContentCoords == (1..NRows) \X (1..NCols)

Max(a, b) == IF a >= b THEN a ELSE b

\* range_boundaries(merged_range) and the containment test on it
InRegion(coord, rg) ==
    /\ rg[1] <= coord[1] /\ coord[1] <= rg[3]
    /\ rg[2] <= coord[2] /\ coord[2] <= rg[4]

\* merged_range.coord.split(":")[0]
RegionTopLeft(rg) == <<rg[1], rg[2]>>

\* ":" in target
IsRange(target) == Len(target) = 4

\* target.split(":")[0] if ":" in target else target
TargetTopLeft(target) == IF IsRange(target) THEN <<target[1], target[2]>> ELSE target

\* isinstance(cell, MergedCell): openpyxl keeps a MergedCell at every cell of a
\* merge region but its top-left
is_merged_cell_but_not_top_left(mg, coord) ==
    \E rg \in mg : InRegion(coord, rg) /\ coord # RegionTopLeft(rg)

is_top_left_of_merged(coord, merged_map) ==
    \E rg \in DOMAIN merged_map : merged_map[rg] = coord

get_cell_value(sh, mg, coord) ==
    IF is_merged_cell_but_not_top_left(mg, coord) THEN None ELSE sh[coord]

\* faulty variant: any string counts as empty (the strip() test is lost)
is_cell_empty_AnyString(sh, mg, coord) ==
    IF is_merged_cell_but_not_top_left(mg, coord) THEN TRUE
    ELSE sh[coord] = None \/ IsStr(sh[coord])

is_cell_empty(sh, mg, coord) ==
    IF is_merged_cell_but_not_top_left(mg, coord) THEN TRUE
    ELSE LET value == sh[coord]
         IN  value = None \/ (IsStr(value) /\ Strip(value.s) = <<>>)

(* ----------------------------- detection ------------------------------ *)
\* faulty variant: a region is mapped to its bottom-right cell
build_merged_map_BottomRight(mg) == [rg \in mg |-> <<rg[3], rg[4]>>]

build_merged_map(mg) == [rg \in mg |-> RegionTopLeft(rg)]

\* find_field_cell returns None
NoTarget == <<>>

\* faulty variant: below is tried before right
directions_BelowFirst == << <<1, 0>>, <<0, 1>>, <<0, -1>> >>

\* Right, Below, Left
directions == << <<0, 1>>, <<1, 0>>, <<0, -1>> >>

Candidate(coord, d) == <<coord[1] + directions[d][1], coord[2] + directions[d][2]>>

\* faulty variant: the single-cell branch returns the candidate without
\* looking whether it is empty
DirectionTarget_NoEmptyCheck(sh, mg, merged_map, cand) ==
    IF cand[1] < 1 \/ cand[2] < 1 THEN NoTarget
    ELSE LET hits == {rg \in DOMAIN merged_map : InRegion(cand, rg)}
             hit == CHOOSE rg \in hits : TRUE
         IN  IF hits # {} /\ is_cell_empty(sh, mg, merged_map[hit]) THEN hit
             ELSE cand

\* One pass of the loop over directions (lines 45-68): the target this
\* direction returns, or NoTarget when the loop moves on.
DirectionTarget(sh, mg, merged_map, cand) ==
    IF cand[1] < 1 \/ cand[2] < 1 THEN NoTarget
    ELSE LET hits == {rg \in DOMAIN merged_map : InRegion(cand, rg)}
             hit == CHOOSE rg \in hits : TRUE
         IN  IF hits # {} /\ is_cell_empty(sh, mg, merged_map[hit]) THEN hit
             \* an occupied region breaks out of the loop over regions only;
             \* the single-cell check below still runs
             ELSE IF is_cell_empty(sh, mg, cand) THEN cand
             ELSE NoTarget

RECURSIVE FindFrom(_, _, _, _, _)
FindFrom(sh, mg, merged_map, coord, d) ==
    IF d > Len(directions) THEN NoTarget
    ELSE LET t == DirectionTarget(sh, mg, merged_map, Candidate(coord, d))
         IN  IF t # NoTarget THEN t ELSE FindFrom(sh, mg, merged_map, coord, d + 1)

find_field_cell(sh, mg, merged_map, coord) ==
    IF is_merged_cell_but_not_top_left(mg, coord) THEN NoTarget
    ELSE IF is_top_left_of_merged(coord, merged_map) THEN NoTarget
    ELSE FindFrom(sh, mg, merged_map, coord, 1)

\* The cells find_field_cell asks worksheet.cell() for (line 64), which
\* creates them when they do not exist: the candidates of the directions it
\* tries, but for a direction that returns a region.
RECURSIVE ProbedFrom(_, _, _, _, _)
ProbedFrom(sh, mg, merged_map, coord, d) ==
    IF d > Len(directions) THEN {}
    ELSE LET cand == Candidate(coord, d)
             t == DirectionTarget(sh, mg, merged_map, cand)
         IN  IF cand[1] < 1 \/ cand[2] < 1
             THEN ProbedFrom(sh, mg, merged_map, coord, d + 1)
             ELSE IF t # NoTarget
             THEN (IF IsRange(t) THEN {} ELSE {cand})
             ELSE {cand} \cup ProbedFrom(sh, mg, merged_map, coord, d + 1)

ProbedCells(sh, mg, merged_map, coord) ==
    IF \/ is_merged_cell_but_not_top_left(mg, coord)
       \/ is_top_left_of_merged(coord, merged_map)
    THEN {}
    ELSE ProbedFrom(sh, mg, merged_map, coord, 1)

\* all_potential_fields is a dict in insertion order: a sequence of entries.
\* src is the cell the label was read from (not stored by the code).
Entry(label, target, src) == [label |-> label, target |-> target, src |-> src]

HasLabel(fields, label) == \E i \in 1..Len(fields) : fields[i].label = label

RECURSIVE RemoveLabel(_, _)
RemoveLabel(fields, label) ==
    IF fields = <<>> THEN <<>>
    ELSE IF Head(fields).label = label THEN Tail(fields)
    ELSE <<Head(fields)>> \o RemoveLabel(Tail(fields), label)

NoLabel == <<>>

\* faulty variant: the search for the label of a seen target finds nothing
ExistingLabel_NotFound(fields, target_top_left) == NoLabel

\* lines 129-134: the first label whose target has this top-left, or None
ExistingLabel(fields, target_top_left) ==
    LET idx == {i \in 1..Len(fields) : TargetTopLeft(fields[i].target) = target_top_left}
    IN  IF idx = {} THEN NoLabel
        ELSE fields[CHOOSE i \in idx : \A j \in idx : i <= j].label

\* faulty variant: a colon-terminated label is suppressed too
LeftSuppressed_ColonToo(sh, mg, coord, label) ==
    /\ coord[2] > 1
    /\ LET left_value == get_cell_value(sh, mg, <<coord[1], coord[2] - 1>>)
       IN  /\ Truthy(left_value)
           /\ Len(Strip(left_value.s)) > min_left_cell_text_length

\* lines 98-107: left-neighbour suppression
LeftSuppressed(sh, mg, coord, label) ==
    /\ coord[2] > 1
    /\ LET left_value == get_cell_value(sh, mg, <<coord[1], coord[2] - 1>>)
       IN  /\ Truthy(left_value)
           /\ Len(Strip(left_value.s)) > min_left_cell_text_length
    /\ ~EndsWithColon(RStrip(label))

\* faulty variant: no dedup by target, only by label
Dedup_LabelOnly(fields, seen, label, target, src) ==
    IF ~HasLabel(fields, label)
    THEN [fields |-> Append(fields, Entry(label, target, src)),
          seen |-> seen \cup {TargetTopLeft(target)}]
    ELSE [fields |-> fields, seen |-> seen]

\* faulty variant: a later cell with an accepted label text takes the label over
Dedup_LastWins(fields, seen, label, target, src) ==
    LET target_top_left == TargetTopLeft(target)
    IN  IF target_top_left \in seen /\ ExistingLabel(fields, target_top_left) # NoLabel
        THEN [fields |-> fields, seen |-> seen]
        ELSE [fields |-> Append(RemoveLabel(fields, label), Entry(label, target, src)),
              seen |-> seen \cup {target_top_left}]

\* faulty variant: a superseding label takes the place of the label it removes
Dedup_InPlace(fields, seen, label, target, src) ==
    LET target_top_left == TargetTopLeft(target)
        existing_label == IF target_top_left \in seen
                          THEN ExistingLabel(fields, target_top_left)
                          ELSE NoLabel
        supersede == /\ existing_label # NoLabel
                     /\ EndsWithColon(RStrip(label))
                     /\ ~EndsWithColon(RStrip(existing_label))
    IN  IF existing_label # NoLabel /\ ~supersede
        THEN [fields |-> fields, seen |-> seen]
        ELSE IF supersede /\ ~HasLabel(fields, label)
        THEN [fields |-> [i \in 1..Len(fields) |->
                            IF fields[i].label = existing_label
                            THEN Entry(label, target, src) ELSE fields[i]],
              seen |-> seen]
        ELSE IF ~HasLabel(fields, label)
        THEN [fields |-> Append(fields, Entry(label, target, src)),
              seen |-> seen \cup {target_top_left}]
        ELSE [fields |-> fields, seen |-> seen]

\* lines 128-145: dedup by target, then by label, then record
Dedup(fields, seen, label, target, src) ==
    LET target_top_left == TargetTopLeft(target)
        existing_label == IF target_top_left \in seen
                          THEN ExistingLabel(fields, target_top_left)
                          ELSE NoLabel
        supersede == /\ existing_label # NoLabel
                     /\ EndsWithColon(RStrip(label))
                     /\ ~EndsWithColon(RStrip(existing_label))
        kept == IF supersede THEN RemoveLabel(fields, existing_label) ELSE fields
    IN  IF existing_label # NoLabel /\ ~supersede
        THEN [fields |-> fields, seen |-> seen]
        ELSE IF ~HasLabel(kept, label)
        THEN [fields |-> Append(kept, Entry(label, target, src)),
              seen |-> seen \cup {target_top_left}]
        ELSE [fields |-> kept, seen |-> seen]

\* lines 81-107 on one cell of the scan: TRUE when the cell is taken for a
\* label and find_field_cell is called on it
IsLabelCell(sh, mg, merged_map, coord) ==
    /\ Truthy(sh[coord])
    /\ ~is_merged_cell_but_not_top_left(mg, coord)
    /\ ~is_top_left_of_merged(coord, merged_map)
    /\ looks_like_label(Strip(sh[coord].s))
    /\ ~LeftSuppressed(sh, mg, coord, Strip(sh[coord].s))

\* lines 109-126: the target found for a label cell passes the re-check
TargetAccepted(sh, mg, target) ==
    /\ target # NoTarget
    /\ is_cell_empty(sh, mg, TargetTopLeft(target))

\* the body of the loop over cells (lines 81-145): the mapping and the seen
\* set after it, and the cells it made worksheet.cell() create
ScanStep(sh, mg, merged_map, flds, sn, coord) ==
    IF IsLabelCell(sh, mg, merged_map, coord)
    THEN LET target == find_field_cell(sh, mg, merged_map, coord)
             out == IF TargetAccepted(sh, mg, target)
                    THEN Dedup(flds, sn, Strip(sh[coord].s), target, coord)
                    ELSE [fields |-> flds, seen |-> sn]
         IN  [fields |-> out.fields, seen |-> out.seen,
              probes |-> ProbedCells(sh, mg, merged_map, coord)]
    ELSE [fields |-> flds, seen |-> sn, probes |-> {}]

(* ------------------------------- fill --------------------------------- *)
\* is_cell_in_range(cell_coord, merged_range, ws) for a merged_range with ":"
is_cell_in_range(coord, rg) == InRegion(coord, rg)

\* faulty variant: a region target resolves to the region's last cell
get_writable_cell_LastCell(target, mg, merged_map) ==
    IF IsRange(target) THEN <<target[3], target[4]>> ELSE target

\* faulty variant: a placeholder target is returned as it is
get_writable_cell_NoResolve(target, mg, merged_map) ==
    IF IsRange(target) THEN TargetTopLeft(target) ELSE target

\* get_writable_cell: the coordinate of the cell it returns.  mg is the
\* sheet's live set of merge regions, merged_map the map of the detection.
get_writable_cell(target, mg, merged_map) ==
    IF IsRange(target)
    THEN IF target \in DOMAIN merged_map THEN merged_map[target]
         ELSE IF target \in mg THEN <<target[1], target[2]>>
         ELSE TargetTopLeft(target)
    ELSE IF is_merged_cell_but_not_top_left(mg, target)
         THEN LET inmap == {rg \in DOMAIN merged_map : is_cell_in_range(target, rg)}
                  live == {rg \in mg : InRegion(target, rg)}
              IN  IF inmap # {} THEN merged_map[CHOOSE rg \in inmap : TRUE]
                  ELSE IF live # {} THEN RegionTopLeft(CHOOSE rg \in live : TRUE)
                  ELSE target
         ELSE target

\* characters openpyxl refuses in a cell string (Cell.check_string raises)
IllegalChars == {"\\x01"}

DigitChars == <<"0", "1", "2", "3", "4", "5", "6", "7", "8", "9">>

\* str(n) for n >= 0
RECURSIVE NatToText(_)
NatToText(n) ==
    IF n < 10 THEN <<DigitChars[n + 1]>>
    ELSE NatToText(n \div 10) \o <<DigitChars[(n % 10) + 1]>>

\* str(n) of an int, also what json.dumps gives for it
IntToText(n) == IF n < 0 THEN <<"-">> \o NatToText(-n) ELSE NatToText(n)

\* json.dumps of one character inside a string (ensure_ascii=False)
JsonEscapeChar(ch) ==
    IF ch = "\"" THEN <<"\\", "\"">>
    ELSE IF ch = "\\" THEN <<"\\", "\\">>
    ELSE IF ch = "\n" THEN <<"\\", "n">>
    ELSE IF ch = "\t" THEN <<"\\", "t">>
    ELSE IF ch \in IllegalChars THEN <<"\\", "u", "0", "0", "0", "1">>
    ELSE <<ch>>

RECURSIVE JsonEscape(_)
JsonEscape(s) == IF s = <<>> THEN <<>> ELSE JsonEscapeChar(Head(s)) \o JsonEscape(Tail(s))

\* json.dumps of a str
JsonString(s) == <<"\"">> \o JsonEscape(s) \o <<"\"">>

\* json.dumps(value, ensure_ascii=False), with the default separators
RECURSIVE JsonDumps(_)
RECURSIVE JsonItems(_)
RECURSIVE JsonPairs(_)
JsonDumps(value) ==
    CASE value.t = "none" -> <<"n", "u", "l", "l">>
      [] value.t = "bool" -> IF value.b THEN <<"t", "r", "u", "e">>
                             ELSE <<"f", "a", "l", "s", "e">>
      [] value.t = "num" -> IntToText(value.n)
      [] value.t = "str" -> JsonString(value.s)
      [] value.t = "list" -> <<"[">> \o JsonItems(value.items) \o <<"]">>
      [] value.t = "dict" -> <<"{">> \o JsonPairs(value.pairs) \o <<"}">>

JsonItems(items) ==
    IF items = <<>> THEN <<>>
    ELSE IF Len(items) = 1 THEN JsonDumps(items[1])
    ELSE JsonDumps(items[1]) \o <<",", " ">> \o JsonItems(Tail(items))

JsonPairs(pairs) ==
    IF pairs = <<>> THEN <<>>
    ELSE LET one == JsonString(pairs[1][1]) \o <<":", " ">> \o JsonDumps(pairs[1][2])
         IN  IF Len(pairs) = 1 THEN one
             ELSE one \o <<",", " ">> \o JsonPairs(Tail(pairs))

\* str(value) of a scalar that is not None
PyStr(value) ==
    CASE value.t = "str" -> value.s
      [] value.t = "num" -> IntToText(value.n)
      [] value.t = "bool" -> IF value.b THEN <<"T", "r", "u", "e">>
                             ELSE <<"F", "a", "l", "s", "e">>

\* faulty variant: only a string is written, anything else becomes ""
Normalize_StrOnly(value) == IF value.t = "str" THEN value.s ELSE <<>>

\* lines 30-37: the text written for a data value
Normalize(value) ==
    IF value.t \in {"dict", "list"} THEN JsonDumps(value)
    ELSE IF value = None THEN <<>>
    ELSE PyStr(value)

\* the text holds a character the cell refuses
HasIllegalChar(text) == \E i \in 1..Len(text) : text[i] \in IllegalChars

\* cell.value = value raises: the cell is a MergedCell (read-only value) or
\* the text holds an illegal character
WriteRaises(mg, cell, text) ==
    \/ is_merged_cell_but_not_top_left(mg, cell)
    \/ HasIllegalChar(text)

\* what happened to one field in a pass (not stored by the code): the cell
\* it resolved to, whether that cell was empty when line 50 looked at it, and
\* the text to write
Step(label, outcome, cell, empty, text) ==
    [label |-> label, outcome |-> outcome, cell |-> cell, empty |-> empty, text |-> text]

\* faulty variant: the missing label is diagnosed but not counted
SkipMissing_NotCounted(acc, label) ==
    [acc EXCEPT !.errors = Append(@, <<"not found in data", label>>),
                !.steps = Append(@, Step(label, "missing", NoTarget, FALSE, <<>>))]

\* lines 25-28: the label is not in data
SkipMissing(acc, label) ==
    [acc EXCEPT !.skipped_count = @ + 1,
                !.errors = Append(@, <<"not found in data", label>>),
                !.steps = Append(@, Step(label, "missing", NoTarget, FALSE, <<>>))]

\* faulty variant: the write is not guarded
MayWrite_Always(sh, mg, cell) == TRUE

\* line 50: the guard of the write
MayWrite(sh, mg, cell) == is_cell_empty(sh, mg, cell)

\* faulty variant: the occupied target is reported as a diagnostic
SkipOccupied_Diagnosed(acc, st) ==
    [acc EXCEPT !.skipped_count = @ + 1,
                !.errors = Append(@, <<"Error filling", st.label>>),
                !.steps = Append(@, st)]

\* lines 50-52: the resolved cell is not empty
SkipOccupied(acc, st) ==
    [acc EXCEPT !.skipped_count = @ + 1,
                !.steps = Append(@, st)]

\* faulty variant: the failed write is diagnosed but not counted
SkipError_NotCounted(acc, st) ==
    [acc EXCEPT !.errors = Append(@, <<"Error filling", st.label>>),
                !.steps = Append(@, st)]

\* lines 57-60: the write raised
SkipError(acc, st) ==
    [acc EXCEPT !.skipped_count = @ + 1,
                !.errors = Append(@, <<"Error filling", st.label>>),
                !.steps = Append(@, st)]

\* faulty variant: the write also clears the cell to the left
WriteCell_ClearsLeft(sh, cell, value) ==
    [c \in DOMAIN sh |->
        IF c = cell THEN Str(value)
        ELSE IF c = <<cell[1], cell[2] - 1>> THEN None
        ELSE sh[c]]

\* line 54: cell.value = value
WriteCell(sh, cell, value) == [sh EXCEPT ![cell] = Str(value)]

\* one pass of the loop over fields (lines 23-60).  acc holds the sheet, the
\* counters, the diagnostics and the steps.
FillField(acc, field, dat, mg, merged_map) ==
    IF field.label \notin DOMAIN dat
    THEN SkipMissing(acc, field.label)
    ELSE LET value == Normalize(dat[field.label])
             cell == get_writable_cell(field.target, mg, merged_map)
             empty == is_cell_empty(acc.sheet, mg, cell)
         IN  IF ~MayWrite(acc.sheet, mg, cell)
             THEN SkipOccupied(acc, Step(field.label, "occupied", cell, empty, value))
             ELSE IF WriteRaises(mg, cell, value)
             THEN SkipError(acc, Step(field.label, "error", cell, empty, value))
             ELSE [acc EXCEPT !.sheet = WriteCell(@, cell, value),
                              !.filled_count = @ + 1,
                              !.steps = Append(@, Step(field.label, "filled",
                                                       cell, empty, value))]

RECURSIVE FillFrom(_, _, _, _, _, _)
FillFrom(acc, fields, i, dat, mg, merged_map) ==
    IF i > Len(fields) THEN acc
    ELSE FillFrom(FillField(acc, fields[i], dat, mg, merged_map),
                  fields, i + 1, dat, mg, merged_map)

\* FormFiller.fill(detection_result, data) on the sheet sh
fill(sh, mg, detection_result, dat) ==
    FillFrom([sheet |-> sh, filled_count |-> 0, skipped_count |-> 0,
              errors |-> <<>>, steps |-> <<>>],
             detection_result.fields, 1, dat, mg, detection_result.merged_map)

(* ------------------------------ inputs -------------------------------- *)
TxtEmailColon == <<"E","m","a","i","l",":">>
TxtEmail == <<"E","m","a","i","l">>
TxtXY == <<"x","@","y",".","c","o","m">>
TxtLong == <<"h","e","l","l","o"," ","w","o","r","l","d">>
TxtBlank == <<" ">>
TxtJuan == <<"J","u","a","n">>
TxtCtrl == <<"\\x01">>

\* what a cell of the loaded sheet may hold, besides nothing
CellTexts == {Str(TxtEmailColon), Str(TxtEmail), Str(TxtXY), Str(TxtLong), Str(TxtBlank)}

\* what the data may map a label to
DataValues == {None, Str(TxtJuan), Str(TxtBlank), Str(TxtCtrl)}

\* rectangular regions of two cells or more within the content
AllRegions ==
    {rg \in (1..NRows) \X (1..NCols) \X (1..NRows) \X (1..NCols) :
        /\ rg[1] <= rg[3] /\ rg[2] <= rg[4]
        /\ <<rg[1], rg[2]>> # <<rg[3], rg[4]>>}

Overlap(a, b) ==
    /\ a[1] <= b[3] /\ b[1] <= a[3]
    /\ a[2] <= b[4] /\ b[2] <= a[4]

\* sets of at most k pairwise disjoint regions
RECURSIVE MergeSets(_)
MergeSets(k) ==
    IF k = 0 THEN {{}}
    ELSE LET prev == MergeSets(k - 1)
         IN  prev \cup {m \cup {rg} : <<m, rg>> \in
                          {x \in prev \X AllRegions : \A o \in x[1] : ~Overlap(o, x[2])}}

\* the data mappings that differ on the labels of a result
DataChoices(labels) == UNION {[S -> DataValues] : S \in SUBSET labels}

(* ------------------------------ state --------------------------------- *)
VARIABLES
    sheet,       \* cell values, by coordinate
    merged,      \* worksheet.merged_cells.ranges
    maxRow,      \* worksheet.max_row
    maxCol,      \* worksheet.max_column
    pc,          \* "loaded", "scanning", "detected", "filled"
    pos,         \* scanning: index of the next cell in row-major order
    scanRows,    \* scanning: the rows iter_rows() covers
    scanCols,    \* scanning: the columns iter_rows() covers
    merged_map,  \* scanning: detect_fields' merged_map
    fields,      \* scanning: all_potential_fields
    seen,        \* scanning: seen_coordinates
    result,      \* the FieldDetectionResult detect_fields returned last
    data,        \* the data mapping handed to fill
    fills,       \* the FillResults returned so far
    arg,         \* the arguments of a function called on its own
    ret,         \* what that call returned
    run,         \* one run of a handler or of the command line: its position
                 \* and what it has done
    gen          \* one call of AIGenerator.generate_data: its locals

vars == <<sheet, merged, maxRow, maxCol, pc, pos, scanRows, scanCols,
          merged_map, fields, seen, result, data, fills, arg, ret, run, gen>>

NoData == <<>>
NoResult == <<>>
NoArg == <<>>
NoRet == <<>>
NoRun == <<>>
NoGen == <<>>

Init ==
    /\ \E mg \in MergeSets(MaxMerges) :
       \E S \in SUBSET {c \in ContentCoords : ~is_merged_cell_but_not_top_left(mg, c)} :
         /\ Cardinality(S) <= MaxNonEmpty
         /\ \E f \in [S -> CellTexts] :
              /\ merged = mg
              /\ sheet = [c \in Coords |-> IF c \in S THEN f[c] ELSE None]
    /\ maxRow = NRows
    /\ maxCol = NCols
    /\ pc = "loaded"
    /\ pos = 0
    /\ scanRows = 0
    /\ scanCols = 0
    /\ merged_map = <<>>
    /\ fields = <<>>
    /\ seen = {}
    /\ result = NoResult
    /\ data = NoData
    /\ fills = <<>>
    /\ arg = NoArg
    /\ ret = NoRet
    /\ run = NoRun
    /\ gen = NoGen

\* the cell at index p of the row-major scan
ScanCoord(p, cols) == <<((p - 1) \div cols) + 1, ((p - 1) % cols) + 1>>

RowsOf(S) == {c[1] : c \in S}
ColsOf(S) == {c[2] : c \in S}
MaxOf(S, d) == IF S = {} THEN d ELSE Max(d, CHOOSE m \in S : \A n \in S : m >= n)

\* The loop over cells moves past a cell with no value or a value that is no
\* string (lines 81-82) without any effect: the index of the first cell after
\* p that holds a non-empty string, or one past the last cell.
NextStringCell(sh, p, rows, cols) ==
    LET later == {q \in (p + 1)..(rows * cols) : Truthy(sh[ScanCoord(q, cols)])}
    IN  IF later = {} THEN rows * cols + 1
        ELSE CHOOSE q \in later : \A o \in later : q <= o

\* faulty variant: building the merge map unmerges the regions
StartDetect_Unmerges ==
    /\ pc \in {"loaded", "detected"}
    /\ pc' = "scanning"
    /\ merged_map' = build_merged_map(merged)
    /\ merged' = {}
    /\ fields' = <<>>
    /\ seen' = {}
    /\ pos' = NextStringCell(sheet, 0, maxRow, maxCol)
    /\ scanRows' = maxRow
    /\ scanCols' = maxCol
    /\ UNCHANGED <<sheet, maxRow, maxCol, result, data, fills, arg, ret, run, gen>>

\* detect_fields, lines 74-82: the merge map is built and the scan moves to
\* the first cell that holds a string.  The callers run detection on the
\* loaded sheet, before any fill.
StartDetect ==
    /\ pc \in {"loaded", "detected"}
    /\ pc' = "scanning"
    /\ merged_map' = build_merged_map(merged)
    /\ fields' = <<>>
    /\ seen' = {}
    /\ pos' = NextStringCell(sheet, 0, maxRow, maxCol)
    /\ scanRows' = maxRow
    /\ scanCols' = maxCol
    /\ UNCHANGED <<sheet, merged, maxRow, maxCol, result, data, fills, arg, ret, run, gen>>

\* faulty variant: the scan marks the target it accepts in the sheet
ScanCell_MarksTarget ==
    /\ pc = "scanning"
    /\ pos <= scanRows * scanCols
    /\ \E out \in {ScanStep(sheet, merged, merged_map, fields, seen,
                            ScanCoord(pos, scanCols))} :
           /\ fields' = out.fields
           /\ seen' = out.seen
           /\ maxRow' = MaxOf(RowsOf(out.probes), maxRow)
           /\ maxCol' = MaxOf(ColsOf(out.probes), maxCol)
           /\ sheet' = [c \in Coords |->
                          IF c \in out.seen \ seen THEN Str(<<"?">>) ELSE sheet[c]]
    /\ pos' = NextStringCell(sheet, pos, scanRows, scanCols)
    /\ UNCHANGED <<merged, pc, scanRows, scanCols, merged_map, result, data, fills, arg, ret, run, gen>>

\* detect_fields, lines 80-145: the loop body on the cell at pos, then the
\* scan moves to the next cell that holds a string
ScanCell ==
    /\ pc = "scanning"
    /\ pos <= scanRows * scanCols
    /\ \E out \in {ScanStep(sheet, merged, merged_map, fields, seen,
                            ScanCoord(pos, scanCols))} :
           /\ fields' = out.fields
           /\ seen' = out.seen
           /\ maxRow' = MaxOf(RowsOf(out.probes), maxRow)
           /\ maxCol' = MaxOf(ColsOf(out.probes), maxCol)
    /\ pos' = NextStringCell(sheet, pos, scanRows, scanCols)
    /\ UNCHANGED <<sheet, merged, pc, scanRows, scanCols, merged_map, result, data, fills, arg, ret, run, gen>>

\* detect_fields, lines 147-152: the result is returned
ScanDone ==
    /\ pc = "scanning"
    /\ pos > scanRows * scanCols
    /\ pc' = "detected"
    /\ result' = [fields |-> fields, merged_map |-> merged_map]
    \* the locals of detect_fields are gone
    /\ pos' = 0
    /\ scanRows' = 0
    /\ scanCols' = 0
    /\ merged_map' = <<>>
    /\ fields' = <<>>
    /\ seen' = {}
    /\ UNCHANGED <<sheet, merged, maxRow, maxCol, data, fills, arg, ret, run, gen>>

LabelsOf(res) == {res.fields[i].label : i \in 1..Len(res.fields)}

FillPass(dat) ==
    LET out == fill(sheet, merged, result, dat)
    IN  /\ sheet' = out.sheet
        /\ fills' = Append(fills, [filled_count |-> out.filled_count,
                                   skipped_count |-> out.skipped_count,
                                   errors |-> out.errors,
                                   steps |-> out.steps])

\* FormFiller.fill with the detection result and a data mapping
Fill ==
    /\ pc = "detected"
    /\ \E dat \in DataChoices(LabelsOf(result)) :
         /\ data' = dat
         /\ FillPass(dat)
    /\ pc' = "filled"
    /\ UNCHANGED <<merged, maxRow, maxCol, pos, scanRows, scanCols,
                   merged_map, fields, seen, result, arg, ret, run, gen>>

\* FormFiller.fill again, with the same result and the same data
FillAgain ==
    /\ pc = "filled"
    /\ Len(fills) < MaxFills
    /\ FillPass(data)
    /\ UNCHANGED <<merged, maxRow, maxCol, pc, pos, scanRows, scanCols,
                   merged_map, fields, seen, result, data, arg, ret, run, gen>>

Next == StartDetect \/ ScanCell \/ ScanDone \/ Fill \/ FillAgain

Spec == Init /\ [][Next]_vars

(* ------------------------ sheets full of labels ----------------------- *)
\* at most this many cells of such a sheet hold a value
MaxLabelCells == 4

TxtNombreColon == <<"N","o","m","b","r","e",":">>

\* what a cell of such a sheet may hold, besides nothing
LabelCellTexts == {Str(TxtEmail), Str(TxtEmailColon), Str(TxtNombreColon), Str(TxtXY)}

\* a loaded sheet without merge regions, with up to MaxLabelCells cells that
\* hold one of three label texts or a value
InitLabels ==
    /\ \E S \in SUBSET ContentCoords :
         /\ Cardinality(S) <= MaxLabelCells
         /\ \E f \in [S -> LabelCellTexts] :
              sheet = [c \in Coords |-> IF c \in S THEN f[c] ELSE None]
    /\ merged = {}
    /\ maxRow = NRows
    /\ maxCol = NCols
    /\ pc = "loaded"
    /\ pos = 0
    /\ scanRows = 0
    /\ scanCols = 0
    /\ merged_map = <<>>
    /\ fields = <<>>
    /\ seen = {}
    /\ result = NoResult
    /\ data = NoData
    /\ fills = <<>>
    /\ arg = NoArg
    /\ ret = NoRet
    /\ run = NoRun
    /\ gen = NoGen

SpecLabels == InitLabels /\ [][Next]_vars

(* ----------------------- functions on their own ----------------------- *)
\* n characters that are neither digits nor part of a keyword
Pad(n) == [i \in 1..n |-> "x"]

\* lengths of padding that put a text around the length limits
PadLengths == {0, 1} \cup (34..40) \cup (94..100)

TextPrefixes == {<<>>, <<"h","t","t","p">>, <<"W","w","w">>, <<"1">>, <<" ">>}
TextCores == {<<>>, <<"c","p">>, <<"E","m","a","i","l">>, <<"a","@","b">>, <<"x">>}
TextMiddles == {<<>>, <<"7">>, <<"7","8","9">>}
TextSuffixes == {<<>>, <<":">>, <<":"," ">>, <<"9">>, <<"p">>}

\* the texts looks_like_label is called with
LabelTexts ==
    {p \o c \o m \o Pad(n) \o e :
        p \in TextPrefixes, c \in TextCores, m \in TextMiddles,
        n \in PadLengths, e \in TextSuffixes}

LabelArgs == {[fn |-> "looks_like_label", text |-> t] : t \in LabelTexts}

\* what the cell to the left of a candidate may hold: nothing, a number,
\* texts of 10 and of 11 characters, and texts that only blanks make longer
LeftValues ==
    {None, Num(1234567890), Str(Pad(10)), Str(Pad(11)),
     Str(<<" ">> \o Pad(10) \o <<" ", " ">>), Str(<<" ">> \o Pad(11))}

\* rows of three cells, with no merge, A1:B1 merged or A1:A2 merged, and a
\* candidate label in one of them
LeftArgs ==
    {[fn |-> "left_neighbour",
      sheet |-> [c \in Coords |-> IF c = <<1, 1>> THEN a
                                  ELSE IF c = <<1, 2>> THEN b ELSE None],
      merged |-> mg, coord |-> <<1, col>>, label |-> l] :
        a \in LeftValues, b \in LeftValues, mg \in {{}, {<<1, 1, 1, 2>>}, {<<1, 1, 2, 1>>}},
        col \in 1..3, l \in {TxtEmail, TxtEmailColon}}

\* a placeholder cell holds no value, and the candidate has passed lines
\* 84-88: it is neither a placeholder nor a merge top-left
WellFormed(a) ==
    /\ \A c \in Coords : is_merged_cell_but_not_top_left(a.merged, c) => a.sheet[c] = None
    /\ ~is_merged_cell_but_not_top_left(a.merged, a.coord)
    /\ ~is_top_left_of_merged(a.coord, build_merged_map(a.merged))

\* data values of every kind, each with the text Python gives for it (str of
\* a scalar, json.dumps of a list or dict, "" for None)
NormSamples == <<
    <<None,
      <<>>>>,
    <<Str(<<"J","u","a","n">>),
      <<"J","u","a","n">>>>,
    <<Str(<<" ">>),
      <<" ">>>>,
    <<Str(<<>>),
      <<>>>>,
    <<Num(0),
      <<"0">>>>,
    <<Num(42),
      <<"4","2">>>>,
    <<Num(-7),
      <<"-","7">>>>,
    <<Bool(TRUE),
      <<"T","r","u","e">>>>,
    <<Bool(FALSE),
      <<"F","a","l","s","e">>>>,
    <<List(<<>>),
      <<"[","]">>>>,
    <<List(<<Str(<<"a">>), Num(1), Bool(TRUE), None>>),
      <<"[","\"","a","\"",","," ","1",","," ","t","r","u","e",","," ","n","u","l","l","]">>>>,
    <<List(<<List(<<Num(1)>>), Dict(<<<<<<"k">>, Bool(FALSE)>>>>)>>),
      <<"[","[","1","]",","," ","{","\"","k","\"",":"," ","f","a","l","s","e","}","]">>>>,
    <<Dict(<<>>),
      <<"{","}">>>>,
    <<Dict(<<<<<<"k">>, Str(<<"v","\"","w">>)>>>>),
      <<"{","\"","k","\"",":"," ","\"","v","\\","\"","w","\"","}">>>>,
    <<Dict(<<<<<<"a">>, Num(-10)>>, <<<<"b">>, List(<<Str(<<"x","\\","y">>)>>)>>>>),
      <<"{","\"","a","\"",":"," ","-","1","0",","," ","\"","b","\"",":"," ","[","\"","x","\\","\\","y","\"","]","}">>>>,
    <<List(<<Str(<<"\\x01">>)>>),
      <<"[","\"","\\","u","0","0","0","1","\"","]">>>>,
    <<Str(<<"a","\n","b">>),
      <<"a","\n","b">>>>,
    <<List(<<Str(<<"a","\n","b">>)>>),
      <<"[","\"","a","\\","n","b","\"","]">>>>
>>

\* the values fill is called with
FillArgs ==
    {[fn |-> "fill", value |-> NormSamples[i][1]] : i \in 1..Len(NormSamples)}
        \cup {[fn |-> "fill", value |-> Str(TxtCtrl)]}

\* the sheet and the detection result of those calls: A1 = "Email:", the
\* field "Email:" with target B1
FillSheet == [c \in Coords |-> IF c = <<1, 1>> THEN Str(TxtEmailColon) ELSE None]
FillDetection ==
    [fields |-> <<Entry(TxtEmailColon, <<1, 2>>, <<1, 1>>)>>, merged_map |-> <<>>]

\* targets, live merge regions and merge maps get_writable_cell is called
\* with; the map is that of the live regions or of other regions (the
\* topology changed after detection)
ResolveArgs ==
    {[fn |-> "get_writable_cell", target |-> t, merged |-> mg,
      merged_map |-> build_merged_map(mm)] :
        t \in ContentCoords \cup AllRegions,
        mg \in MergeSets(MaxMerges), mm \in MergeSets(MaxMerges)}

PureArgs ==
    LabelArgs \cup {a \in LeftArgs : WellFormed(a)} \cup FillArgs \cup ResolveArgs

\* a function is about to be called on arguments of its own; no sheet is
\* loaded
InitPure ==
    /\ sheet = [c \in Coords |-> None]
    /\ merged = {}
    /\ maxRow = NRows
    /\ maxCol = NCols
    /\ pc = "call"
    /\ pos = 0
    /\ scanRows = 0
    /\ scanCols = 0
    /\ merged_map = <<>>
    /\ fields = <<>>
    /\ seen = {}
    /\ result = NoResult
    /\ data = NoData
    /\ fills = <<>>
    /\ arg \in PureArgs
    /\ ret = NoRet
    /\ run = NoRun
    /\ gen = NoGen

\* what a call leaves alone
PureFrame ==
    UNCHANGED <<sheet, merged, maxRow, maxCol, pos, scanRows, scanCols,
                merged_map, fields, seen, result, data, fills, arg, run, gen>>

\* looks_like_label(text)
CallLooksLikeLabel ==
    /\ pc = "call"
    /\ arg.fn = "looks_like_label"
    /\ ret' = [v |-> looks_like_label(arg.text)]
    /\ pc' = "returned"
    /\ PureFrame

\* detect_fields, lines 98-107, for a candidate label at a coordinate
CallLeftNeighbour ==
    /\ pc = "call"
    /\ arg.fn = "left_neighbour"
    /\ ret' = [v |-> LeftSuppressed(arg.sheet, arg.merged, arg.coord, arg.label)]
    /\ pc' = "returned"
    /\ PureFrame

\* FormFiller.fill with data that maps the label to the value
CallFill ==
    /\ pc = "call"
    /\ arg.fn = "fill"
    /\ ret' = [v |-> fill(FillSheet, {}, FillDetection,
                          [l \in {TxtEmailColon} |-> arg.value])]
    /\ pc' = "returned"
    /\ PureFrame

\* get_writable_cell(target_coord, ws, merged_map)
CallGetWritableCell ==
    /\ pc = "call"
    /\ arg.fn = "get_writable_cell"
    /\ ret' = [v |-> get_writable_cell(arg.target, arg.merged, arg.merged_map)]
    /\ pc' = "returned"
    /\ PureFrame

NextPure == CallLooksLikeLabel \/ CallLeftNeighbour \/ CallFill \/ CallGetWritableCell

SpecPure == InitPure /\ [][NextPure]_vars

(* --------------------- one run of the whole pipeline ------------------ *)
\* at most this many cells of an uploaded sheet hold a value
MaxRunCells == 2

\* the locals of detect_fields and the sheet's dimensions after the loop
\* body gave out
Scanned(st, out) ==
    [fields |-> out.fields, seen |-> out.seen,
     maxRow |-> MaxOf(RowsOf(out.probes), st.maxRow),
     maxCol |-> MaxOf(ColsOf(out.probes), st.maxCol)]

\* detect_fields, lines 80-145: the loop over the cells from index p on
RECURSIVE DetectFrom(_, _, _, _, _, _, _)
DetectFrom(sh, mg, mm, rows, cols, p, st) ==
    IF p > rows * cols THEN st
    ELSE DetectFrom(sh, mg, mm, rows, cols, NextStringCell(sh, p, rows, cols),
                    Scanned(st, ScanStep(sh, mg, mm, st.fields, st.seen,
                                         ScanCoord(p, cols))))

\* detect_fields as one call: the result and the dimensions of the sheet
\* after it
detect_fields(sh, mg, rows, cols) ==
    LET mm == build_merged_map(mg)
        st == DetectFrom(sh, mg, mm, rows, cols, NextStringCell(sh, 0, rows, cols),
                         [fields |-> <<>>, seen |-> {}, maxRow |-> rows, maxCol |-> cols])
    IN  [result |-> [fields |-> st.fields, merged_map |-> mm],
         maxRow |-> st.maxRow, maxCol |-> st.maxCol]

\* str.endswith
EndsWith(s, p) == Len(s) >= Len(p) /\ SubSeq(s, Len(s) - Len(p) + 1, Len(s)) = p

\* validate_excel_file: the name passes
validate_excel_file(filename) ==
    \/ EndsWith(filename, <<".", "x", "l", "s", "x">>)
    \/ EndsWith(filename, <<".", "x", "l", "s">>)

FnXlsx == <<"f", ".", "x", "l", "s", "x">>
FnXls == <<"f", ".", "x", "l", "s">>
FnTxt == <<"f", ".", "t", "x", "t">>

\* the uploads: the file's name, and whether load_workbook can read it (a
\* file in the old .xls format it cannot)
Uploads == {<<FnXlsx, TRUE>>, <<FnXlsx, FALSE>>, <<FnXls, FALSE>>, <<FnTxt, TRUE>>}

\* the custom_data texts of /fill requests (None: the parameter is absent)
\* and what json.loads gives for each
TxtBadJson == <<"{">>
TxtJsonEmail == <<"{", "\"", "E", "m", "a", "i", "l", ":", "\"", ":", " ", "\"", "J", "u", "a", "n", "\"", "}">>
CustomData == {None, Str(<<>>), Str(TxtBadJson), Str(TxtJsonEmail)}

\* json.loads on the request's custom_data: the mapping, or the
\* JSONDecodeError it raises
JsonLoads(text) ==
    IF text = TxtJsonEmail
    THEN [ok |-> TRUE, v |-> [l \in {TxtEmailColon} |-> Str(TxtJuan)]]
    ELSE [ok |-> FALSE, v |-> <<>>]

\* the entry points: the three handlers and the command line
Entries == {"process", "detect", "fill", "cli"}

\* the requests: for the command line, valid says that the input file exists
\* and loads
Requests ==
    {rq \in [entry : Entries, upload : Uploads,
             use_ai : BOOLEAN, custom_data : CustomData] :
        /\ rq.entry # "fill" => (rq.use_ai /\ rq.custom_data = None)
        /\ rq.use_ai => rq.custom_data = None
        /\ rq.entry = "cli" => rq.upload[1] = FnXlsx}

\* the except clauses of a handler: the status of the HTTPException they
\* raise for an exception of the given kind leaving the try block.  An
\* HTTPException raised inside the block is an Exception like any other.
HandlerStatus(entry, exc) ==
    IF entry = "detect"
    THEN IF exc = "FieldDetectionError" THEN 400 ELSE 500
    ELSE IF exc \in {"AIGenerationError", "FieldDetectionError", "ExcelProcessingError"}
         THEN 400
         ELSE IF entry = "fill" /\ exc = "JSONDecodeError" THEN 400
         ELSE 500

\* a run ends with an exception: the status the client gets, or the exit
\* code of the command line; signalled is the status of the HTTPException the
\* code raised itself, 0 when it raised none
Raise(rn, exc, signalled) ==
    [rn EXCEPT !.at = "done", !.raised = exc, !.signalled = signalled,
               !.status = IF rn.entry = "cli" THEN 1 ELSE HandlerStatus(rn.entry, exc)]

\* a run ends normally
Finish(rn) ==
    [rn EXCEPT !.at = "done", !.status = IF rn.entry = "cli" THEN 0 ELSE 200]

\* a sheet has been uploaded; no request has been made
InitRun ==
    /\ \E mg \in MergeSets(MaxMerges) :
       \E S \in SUBSET {c \in ContentCoords : ~is_merged_cell_but_not_top_left(mg, c)} :
         /\ Cardinality(S) <= MaxRunCells
         /\ \E f \in [S -> {Str(TxtEmailColon), Str(TxtNombreColon), Str(TxtXY)}] :
              /\ merged = mg
              /\ sheet = [c \in Coords |-> IF c \in S THEN f[c] ELSE None]
    /\ maxRow = NRows
    /\ maxCol = NCols
    /\ pc = "uploaded"
    /\ pos = 0
    /\ scanRows = 0
    /\ scanCols = 0
    /\ merged_map = <<>>
    /\ fields = <<>>
    /\ seen = {}
    /\ result = NoResult
    /\ data = NoData
    /\ fills = <<>>
    /\ arg = NoArg
    /\ ret = NoRet
    /\ run = NoRun
    /\ gen = NoGen

\* what the steps of a run before the fill leave alone
RunFrame ==
    UNCHANGED <<sheet, merged, pc, pos, scanRows, scanCols, merged_map, fields,
                seen, fills, arg, ret, gen>>

\* a handler or main() is entered
Receive ==
    /\ run = NoRun
    /\ pc = "uploaded"
    /\ \E rq \in Requests :
         run' = [entry |-> rq.entry, filename |-> rq.upload[1], valid |-> rq.upload[2],
                 use_ai |-> rq.use_ai, custom_data |-> rq.custom_data,
                 at |-> "start", uploaded |-> sheet, detection |-> NoResult,
                 detections |-> 0, generations |-> 0, fillCalls |-> 0,
                 raised |-> "none", signalled |-> 0, status |-> 0]
    /\ RunFrame
    /\ UNCHANGED <<maxRow, maxCol, result, data>>

\* get_workbook_from_upload (dependencies.py 18-23); main() lines 14-29
LoadWorkbook ==
    /\ run # NoRun
    /\ run.at = "start"
    /\ run' = IF run.entry = "cli"
              THEN IF run.valid THEN [run EXCEPT !.at = "loaded"]
                   ELSE Raise(run, "Exception", 0)
              ELSE IF ~validate_excel_file(run.filename)
                   THEN Raise(run, "HTTPException", 400)
                   ELSE IF ~run.valid THEN Raise(run, "Exception", 0)
                   ELSE [run EXCEPT !.at = "loaded"]
    /\ RunFrame
    /\ UNCHANGED <<maxRow, maxCol, result, data>>

\* faulty variant: a result without fields goes on to the value source
AfterDetect_NoCheck(rn, res) ==
    IF rn.entry = "detect" THEN Finish(rn)
    ELSE [rn EXCEPT !.at = "detected"]

\* the lines after processor.detect_fields(): routes.py 52-59, 95-102,
\* 125-129; main() lines 35-38
AfterDetect(rn, res) ==
    IF rn.entry = "detect" THEN Finish(rn)
    ELSE IF res.fields = <<>>
         THEN IF rn.entry = "cli" THEN Finish(rn)
              ELSE Raise(rn, "HTTPException", 400)
         ELSE [rn EXCEPT !.at = "detected"]

\* ExcelProcessor(workbook).detect_fields() and the check of its result
RunDetect ==
    /\ run # NoRun
    /\ run.at = "loaded"
    /\ \E out \in {detect_fields(sheet, merged, maxRow, maxCol)} :
           /\ result' = out.result
           /\ maxRow' = out.maxRow
           /\ maxCol' = out.maxCol
           /\ run' = AfterDetect([run EXCEPT !.detections = @ + 1,
                                             !.detection = out.result],
                                 out.result)
    /\ RunFrame
    /\ UNCHANGED data

\* the data for the fill: ai_generator.generate_data(field_labels), which
\* returns a mapping or raises AIGenerationError (on the command line the
\* constructor of AIGenerator may raise before it), or the request's
\* custom_data (routes.py 61-62, 131-140; main() lines 45-47)
GetData ==
    /\ run # NoRun
    /\ run.at = "detected"
    /\ IF run.use_ai
       THEN \/ \E dat \in DataChoices(LabelsOf(result)) :
                 /\ data' = dat
                 /\ run' = [run EXCEPT !.at = "generated", !.generations = @ + 1]
            \/ /\ run' = Raise([run EXCEPT !.generations = @ + 1],
                               "AIGenerationError", 0)
               /\ UNCHANGED data
            \/ /\ run.entry = "cli"
               /\ run' = Raise(run, "Exception", 0)
               /\ UNCHANGED data
       ELSE IF ~Truthy(run.custom_data)
            THEN /\ run' = Raise(run, "HTTPException", 400)
                 /\ UNCHANGED data
            ELSE IF ~JsonLoads(run.custom_data.s).ok
                 THEN /\ run' = Raise(run, "JSONDecodeError", 0)
                      /\ UNCHANGED data
                 ELSE /\ data' = JsonLoads(run.custom_data.s).v
                      /\ run' = [run EXCEPT !.at = "generated"]
    /\ RunFrame
    /\ UNCHANGED <<maxRow, maxCol, result>>

\* FormFiller(workbook).fill(detection_result, data)
RunFill ==
    /\ run # NoRun
    /\ run.at = "generated"
    /\ FillPass(data)
    /\ run' = [run EXCEPT !.at = "filled", !.fillCalls = @ + 1]
    /\ UNCHANGED <<merged, maxRow, maxCol, pc, pos, scanRows, scanCols,
                   merged_map, fields, seen, result, data, arg, ret, gen>>

\* workbook.save and the response (routes.py 67-80, 145-153; main() 64-66);
\* the save may fail
Save ==
    /\ run # NoRun
    /\ run.at = "filled"
    /\ \/ run' = Finish(run)
       \/ run' = Raise(run, "Exception", 0)
    /\ RunFrame
    /\ UNCHANGED <<maxRow, maxCol, result, data>>

NextRun == Receive \/ LoadWorkbook \/ RunDetect \/ GetData \/ RunFill \/ Save

SpecRun == InitRun /\ [][NextRun]_vars

(* ------------------- the value source: generate_data ------------------ *)
\* AIConfig
max_retries == 3
base_tokens == 2000
tokens_per_field == 80
token_buffer == 1000

\* generate_data is called with at most this many labels
MaxFieldCount == 14

\* _estimate_tokens(field_count)
estimate_tokens(field_count) ==
    Max(base_tokens, field_count * tokens_per_field + token_buffer)

\* the contents the API answers with, each with what
\* json.loads(_clean_response(content)) gives for it: the parsed data, or
\* ok = FALSE for a JSONDecodeError.  In order: an object; the object in a
\* json code fence (the backquote is written "\\x60"); the object without
\* its closing brace (closed by _clean_response); the object cut inside a
\* string; prose; an array; nothing.
ResponseSamples == <<
    << <<"{", "\"", "E", "m", "a", "i", "l", ":", "\"", ":", " ", "\"", "J", "u", "a", "n", "\"", "}">>,
       [ok |-> TRUE, v |-> Dict(<< <<TxtEmailColon, Str(TxtJuan)>> >>)] >>,
    << <<"\\x60", "\\x60", "\\x60", "j", "s", "o", "n", "\n", "{", "\"", "E", "m", "a", "i", "l", ":", "\"", ":", " ", "\"", "J", "u", "a", "n", "\"", "}", "\n", "\\x60", "\\x60", "\\x60">>,
       [ok |-> TRUE, v |-> Dict(<< <<TxtEmailColon, Str(TxtJuan)>> >>)] >>,
    << <<"{", "\"", "E", "m", "a", "i", "l", ":", "\"", ":", " ", "\"", "J", "u", "a", "n", "\"">>,
       [ok |-> TRUE, v |-> Dict(<< <<TxtEmailColon, Str(TxtJuan)>> >>)] >>,
    << <<"{", "\"", "E", "m", "a", "i", "l", ":", "\"", ":", " ", "\"", "J", "u">>,
       [ok |-> FALSE, v |-> None] >>,
    << <<"S", "o", "r", "r", "y">>, [ok |-> FALSE, v |-> None] >>,
    << <<"[", "]">>, [ok |-> TRUE, v |-> List(<<>>)] >>,
    << <<>>, [ok |-> FALSE, v |-> None] >> >>

\* lines 110-111: json.loads(_clean_response(response))
ParseResponse(response) ==
    ResponseSamples[CHOOSE k \in 1..Len(ResponseSamples) :
                        ResponseSamples[k][1] = response][2]

\* _call_ai: what one call of it does.  The request with response_format is
\* made first; when it raises, the request is made again without it.  calls
\* is the number of requests made, raised says that the second one raised
\* too, content is the content returned.
CallOutcomes ==
    {[calls |-> n, raised |-> FALSE, content |-> ResponseSamples[k][1]] :
        n \in {1, 2}, k \in 1..Len(ResponseSamples)}
    \cup {[calls |-> 2, raised |-> TRUE, content |-> <<>>]}

\* faulty variant: the token limit is raised after every failed attempt
NextLimit_Always(max_tokens, failure) == (max_tokens * 3) \div 2

\* lines 113-116 and 120-122: the token limit of the next attempt;
\* int(max_tokens * 1.5) after a JSONDecodeError
NextLimit(max_tokens, failure) ==
    IF failure = "JSONDecodeError" THEN (max_tokens * 3) \div 2 ELSE max_tokens

\* lines 113-123: an attempt failed; the loop goes on, or AIGenerationError
\* is raised after the last attempt
AfterFailure(g, failure) ==
    IF g.attempt < max_retries - 1
    THEN [g EXCEPT !.attempt = @ + 1,
                   !.max_tokens = NextLimit(@, failure)]
    ELSE [g EXCEPT !.at = "raised", !.exc = "AIGenerationError"]

\* one pass of the loop over attempts (lines 107-123) with the given outcome
\* of _call_ai; tried records, for every attempt made, the token limit sent
\* and how the attempt ended
Attempt(g, out) ==
    LET parsed == ParseResponse(out.content)
        how == IF out.raised THEN "Exception"
               ELSE IF parsed.ok THEN "ok" ELSE "JSONDecodeError"
        g1 == [g EXCEPT !.calls = @ + out.calls,
                        !.tried = Append(@, [limit |-> g.max_tokens, how |-> how,
                                             content |-> out.content])]
    IN  IF how = "ok" THEN [g1 EXCEPT !.at = "returned", !.value = parsed.v]
        ELSE AfterFailure(g1, how)

\* nothing but the value source is running
InitAI ==
    /\ sheet = [c \in Coords |-> None]
    /\ merged = {}
    /\ maxRow = NRows
    /\ maxCol = NCols
    /\ pc = "ai"
    /\ pos = 0
    /\ scanRows = 0
    /\ scanCols = 0
    /\ merged_map = <<>>
    /\ fields = <<>>
    /\ seen = {}
    /\ result = NoResult
    /\ data = NoData
    /\ fills = <<>>
    /\ arg = NoArg
    /\ ret = NoRet
    /\ run = NoRun
    /\ gen = NoGen

\* what generate_data leaves alone
GenFrame ==
    UNCHANGED <<sheet, merged, maxRow, maxCol, pc, pos, scanRows, scanCols,
                merged_map, fields, seen, result, data, fills, arg, ret, run>>

\* generate_data(field_labels), lines 101-105: an empty list returns {} at
\* once, otherwise the prompt is built and the token limit estimated
CallGenerateData ==
    /\ pc = "ai"
    /\ gen = NoGen
    /\ \E n \in 0..MaxFieldCount :
         gen' = [field_count |-> n, calls |-> 0, tried |-> <<>>, exc |-> "none",
                 attempt |-> 0,
                 at |-> IF n = 0 THEN "returned" ELSE "loop",
                 max_tokens |-> IF n = 0 THEN 0 ELSE estimate_tokens(n),
                 value |-> IF n = 0 THEN Dict(<<>>) ELSE None]
    /\ GenFrame

\* an attempt whose response parses: the data is returned
AttemptReturns ==
    /\ gen # NoGen
    /\ gen.at = "loop"
    /\ \E out \in CallOutcomes :
         /\ ~out.raised /\ ParseResponse(out.content).ok
         /\ gen' = Attempt(gen, out)
    /\ GenFrame

\* an attempt whose response does not parse
AttemptBadJson ==
    /\ gen # NoGen
    /\ gen.at = "loop"
    /\ \E out \in CallOutcomes :
         /\ ~out.raised /\ ~ParseResponse(out.content).ok
         /\ gen' = Attempt(gen, out)
    /\ GenFrame

\* an attempt in which both requests of _call_ai raised
AttemptApiError ==
    /\ gen # NoGen
    /\ gen.at = "loop"
    /\ \E out \in CallOutcomes :
         /\ out.raised
         /\ gen' = Attempt(gen, out)
    /\ GenFrame

NextAI == CallGenerateData \/ AttemptReturns \/ AttemptBadJson \/ AttemptApiError

SpecAI == InitAI /\ [][NextAI]_vars

(* ------------------------------ claims -------------------------------- *)
FirstFill == fills[1]
SecondFill == fills[2]
Outcomes(fr) == {fr.steps[i].outcome : i \in 1..Len(fr.steps)}

\* C1: after one fill(result, data), a second fill(result, data) on the same
\* sheet returns filled_count = 0 and skipped_count = number of fields,
\* whatever values the data carries.
C1_SecondFillFillsNothing ==
    Len(fills) >= 2 =>
        /\ SecondFill.filled_count = 0
        /\ SecondFill.skipped_count = Len(result.fields)

SheetEmailOccupied ==
    /\ merged = {}
    /\ sheet = [c \in Coords |-> IF c = <<1, 1>> THEN Str(TxtEmailColon)
                                 ELSE IF c = <<1, 2>> THEN Str(TxtXY)
                                 ELSE None]

\* C3 as stated: on the sheet whose only non-empty cells are A1 = "Email:"
\* and B1 = "x@y.com", detect_fields yields no field for the label "Email:".
C3_NoFieldForEmail ==
    (pc = "detected" /\ SheetEmailOccupied) => ~HasLabel(result.fields, TxtEmailColon)

\* C3 amended: on that sheet detect_fields yields no field whose target is
\* the occupied B1; "Email:" is detected once, with the empty cell below it
\* (A2) as its target.
C3_EmailFallsBackBelow ==
    (pc = "detected" /\ SheetEmailOccupied) =>
        result.fields = <<Entry(TxtEmailColon, <<2, 1>>, <<1, 1>>)>>

\* C3 witness: detection has returned on the scenario's sheet
C3_Witness == pc = "detected" /\ SheetEmailOccupied /\ Len(result.fields) = 1

\* the cell the scan is about to run the loop body on
AtCell == pc = "scanning" /\ pos <= scanRows * scanCols
CurCell == ScanCoord(pos, scanCols)

\* a coordinate inside a merge region whose top-left cell holds a value
InOccupiedRegion(c) ==
    \E rg \in merged : InRegion(c, rg) /\ ~is_cell_empty(sheet, merged, RegionTopLeft(rg))

\* the loop over directions reaches direction d: no earlier one returned
Tried(c, d) ==
    \A e \in 1..(d - 1) :
        DirectionTarget(sheet, merged, merged_map, Candidate(c, e)) = NoTarget

\* C4: when find_field_cell is called on a label cell, a direction whose
\* candidate lies inside a merge region with a non-empty top-left yields no
\* target, and the returned target is never the single coordinate of a
\* placeholder (non-top-left) cell of a merge region.
C4_OccupiedRegionRejected ==
    (AtCell /\ IsLabelCell(sheet, merged, merged_map, CurCell)) =>
        LET t == find_field_cell(sheet, merged, merged_map, CurCell)
        IN  /\ \A d \in 1..Len(directions) :
                 LET cand == Candidate(CurCell, d)
                 IN  (Tried(CurCell, d) /\ cand[1] >= 1 /\ cand[2] >= 1
                        /\ InOccupiedRegion(cand)) =>
                         DirectionTarget(sheet, merged, merged_map, cand) = NoTarget
            /\ (t # NoTarget /\ ~IsRange(t)) => ~is_merged_cell_but_not_top_left(merged, t)

\* the mappings a claim about "every DetectionResult and every step of the
\* scan" speaks of: the accumulated mapping and the returned result
Mappings == {fields} \cup (IF result = NoResult THEN {} ELSE {result.fields})

\* C6: in every DetectionResult, and in the accumulated mapping at every step
\* of the scan, no two fields have targets with the same top-left coordinate.
C6_UniqueTargetTopLeft ==
    \A fs \in Mappings : \A i, j \in 1..Len(fs) :
        i # j => TargetTopLeft(fs[i].target) # TargetTopLeft(fs[j].target)

\* C6 witness: a result with two fields
C6_Witness == result # NoResult /\ Len(result.fields) >= 2

\* C9: the top-left coordinate of a field's target is never the cell any
\* field's label was read from, and no label cell is a placeholder or a merge
\* top-left.
C9_TargetsAreNotLabelCells ==
    \A fs \in Mappings : \A i, j \in 1..Len(fs) :
        /\ TargetTopLeft(fs[i].target) # fs[j].src
        /\ ~is_merged_cell_but_not_top_left(merged, fs[j].src)
        /\ \A rg \in merged : RegionTopLeft(rg) # fs[j].src

\* the label candidates of a scan of the sheet: the cells that pass the label
\* checks and resolve to a target that passes the re-check (they reach the
\* dedup step)
LabelOf(c) == Strip(sheet[c].s)
TargetOf(c) == find_field_cell(sheet, merged, build_merged_map(merged), c)
Candidates ==
    {c \in ContentCoords :
        /\ IsLabelCell(sheet, merged, build_merged_map(merged), c)
        /\ TargetAccepted(sheet, merged, TargetOf(c))}

MapsTo(fs, label, top_left) ==
    \E i \in 1..Len(fs) : fs[i].label = label /\ TargetTopLeft(fs[i].target) = top_left

\* C5: whenever two label candidates of one scan resolve to the same target
\* top-left and exactly one of them ends with ':', the result maps that target
\* to the colon-terminated label and has no field for the other label,
\* whichever of the two cells comes first.
C5_ColonLabelWins ==
    (pc = "detected" /\ fills = <<>>) =>
        \A a, b \in Candidates :
            (/\ TargetTopLeft(TargetOf(a)) = TargetTopLeft(TargetOf(b))
             /\ EndsWithColon(LabelOf(a))
             /\ ~EndsWithColon(LabelOf(b))) =>
                /\ MapsTo(result.fields, LabelOf(a), TargetTopLeft(TargetOf(a)))
                /\ ~HasLabel(result.fields, LabelOf(b))

\* a direction's target as the design defines it: the whole region when the
\* candidate lies in a region with an empty top-left, nothing when that region
\* is occupied, else the candidate itself when it is empty
ValidTarget(c, d) ==
    LET cand == Candidate(c, d)
        hits == {rg \in merged : InRegion(cand, rg)}
    IN  IF cand[1] < 1 \/ cand[2] < 1 THEN NoTarget
        ELSE IF hits # {}
        THEN LET rg == CHOOSE r \in hits : TRUE
             IN  IF is_cell_empty(sheet, merged, RegionTopLeft(rg)) THEN rg ELSE NoTarget
        ELSE IF is_cell_empty(sheet, merged, cand) THEN cand
        ELSE NoTarget

\* C7: find_field_cell returns the target of the first of right, below, left
\* that yields a valid empty target (none when no direction does): right wins
\* over below, and left is returned only when neither right nor below yields one.
C7_FirstValidDirection ==
    (AtCell /\ IsLabelCell(sheet, merged, merged_map, CurCell)) =>
        LET t == find_field_cell(sheet, merged, merged_map, CurCell)
            valid == {d \in 1..Len(directions) : ValidTarget(CurCell, d) # NoTarget}
        IN  IF valid = {} THEN t = NoTarget
            ELSE t = ValidTarget(CurCell, CHOOSE d \in valid : \A e \in valid : d <= e)

\* C8: a run of detect_fields on the unmodified sheet returns the same result
\* as the run before it: the same labels, targets, field order and merge map.
C8_SameResultAgain ==
    [][(pc = "scanning" /\ pc' = "detected" /\ result # NoResult) =>
          result' = result]_vars

\* C8 witness: a second run is about to return, with fields found
C8_Witness ==
    /\ pc = "scanning"
    /\ pos > scanRows * scanCols
    /\ result # NoResult
    /\ Len(result.fields) >= 1

MissingSteps(fr) == {i \in 1..Len(fr.steps) : fr.steps[i].outcome = "missing"}
FilledSteps(fr) == {i \in 1..Len(fr.steps) : fr.steps[i].outcome = "filled"}

\* the subsequence of the labels of fs that are not keys of dat
RECURSIVE MissingLabels(_, _)
MissingLabels(fs, dat) ==
    IF fs = <<>> THEN <<>>
    ELSE (IF Head(fs).label \in DOMAIN dat THEN <<>> ELSE <<Head(fs).label>>)
         \o MissingLabels(Tail(fs), dat)

\* the diagnostics of a pass that report a label missing from data
MissingDiagnostics(fr) == SelectSeq(fr.errors, LAMBDA e : e[1] = "not found in data")

\* C10 as stated: in every fill pass a field with a present label and an empty
\* target is filled, whatever value the data carries for it.
C10_PresentLabelEmptyTargetFilled ==
    [][fills' # fills =>
        LET fr == fills'[Len(fills')]
            fs == result.fields
        IN  \A i \in 1..Len(fs) :
                (fs[i].label \in DOMAIN data' /\ fr.steps[i].empty) =>
                    fr.steps[i].outcome = "filled"]_vars

\* C10: a field whose label is absent from data gets exactly one diagnostic,
\* adds one to skipped_count and has nothing written; fill returns, every
\* field of the result is attempted in order, and a field with a present label,
\* an empty target and a text the cell accepts is filled whether it comes
\* before or after a missing one.
C10_MissingLabelSkipsOnlyItself ==
    [][fills' # fills =>
        LET fr == fills'[Len(fills')]
            fs == result.fields
        IN  /\ Len(fr.steps) = Len(fs)
            /\ \A i \in 1..Len(fs) :
                 /\ fr.steps[i].label = fs[i].label
                 /\ (fs[i].label \notin DOMAIN data') <=> (fr.steps[i].outcome = "missing")
                 /\ ( /\ fs[i].label \in DOMAIN data'
                      /\ fr.steps[i].empty
                      /\ ~HasIllegalChar(fr.steps[i].text) ) =>
                        fr.steps[i].outcome = "filled"
            /\ MissingDiagnostics(fr) =
                   [i \in 1..Len(MissingLabels(fs, data')) |->
                       <<"not found in data", MissingLabels(fs, data')[i]>>]
            /\ fr.skipped_count = Len(fs) - Cardinality(FilledSteps(fr))
            /\ \A c \in Coords :
                 sheet'[c] # sheet[c] =>
                     \E i \in FilledSteps(fr) : fr.steps[i].cell = c]_vars

\* C10 witness: a pass that skipped a field missing from data and then filled
\* the field after it
C10_Witness ==
    /\ Len(fills) >= 1
    /\ \E i \in MissingSteps(FirstFill) : \E j \in FilledSteps(FirstFill) : i < j

\* C9 witness: a result with two fields whose label cells are side by side,
\* so the left label's target is not the cell to its right
C9_Witness ==
    /\ result # NoResult
    /\ \E i, j \in 1..Len(result.fields) :
         result.fields[j].src = <<result.fields[i].src[1], result.fields[i].src[2] + 1>>

\* the cells of a region
CellsOf(rg) == {c \in Coords : InRegion(c, rg)}

\* the fields of the result whose target is a whole merge region
RangeFields == {i \in 1..Len(result.fields) : IsRange(result.fields[i].target)}

SheetSingleLabel ==
    /\ merged = {}
    /\ sheet[<<1, 1>>] = Str(TxtEmailColon)
    /\ \A c \in Coords \ {<<1, 1>>, <<1, 2>>} : sheet[c] = None

DetectStep == pc = "scanning" \/ pc' = "scanning"

\* C13: detect_fields (with build_merged_map and find_field_cell) leaves the
\* value of every cell and the set of merge regions unchanged; a cell value
\* changes only in a fill pass, at the resolved cell of a field it filled.
C13_DetectorIsReadOnly ==
    [][/\ DetectStep => (sheet' = sheet /\ merged' = merged)
       /\ sheet' # sheet =>
            /\ fills' # fills
            /\ \A c \in Coords :
                 sheet'[c] # sheet[c] =>
                     \E i \in FilledSteps(fills'[Len(fills')]) :
                         fills'[Len(fills')].steps[i].cell = c]_vars

\* C13 witness: a detection has returned fields on a sheet with a merge
\* region, after find_field_cell created cells beyond the loaded content
C13_Witness ==
    /\ pc = "detected"
    /\ merged # {}
    /\ Len(result.fields) >= 1
    /\ maxCol > NCols

\* a call of the named function has returned
Returned(fn) == pc = "returned" /\ arg.fn = fn

\* the text has a digit at a position other than its first and its last
HasMidDigit(t) == \E i \in 2..(Len(t) - 1) : t[i] \in Digits

\* C14: for trimmed text that does not end with ':' and contains a keyword,
\* looks_like_label returns false whenever the text has a digit at a position
\* other than its first or last character, even if its first or last
\* character is a digit too.
C14_MidDigitRejected ==
    Returned("looks_like_label") =>
        LET t == Strip(arg.text)
        IN  (~EndsWithColon(t) /\ HasKeyword(Lower(t)) /\ HasMidDigit(t)) =>
                ret.v = FALSE

\* C15: for trimmed text that ends with ':', looks_like_label returns true
\* exactly when the length is between 2 and 100, the text does not start with
\* 'http' or 'www' in any case, and it has no '@' or has one of the keywords
\* email, correo, mail; neither a keyword nor the digit rules matter.
C15_ColonBranch ==
    Returned("looks_like_label") =>
        LET t == Strip(arg.text)
            low == Lower(t)
        IN  EndsWithColon(t) =>
                (ret.v <=>
                    /\ Len(t) >= 2
                    /\ Len(t) <= 100
                    /\ ~StartsWith(low, <<"h","t","t","p">>)
                    /\ ~StartsWith(low, <<"w","w","w">>)
                    /\ \/ ~Contains(t, <<"@">>)
                       \/ Contains(low, <<"e","m","a","i","l">>)
                       \/ Contains(low, <<"c","o","r","r","e","o">>)
                       \/ Contains(low, <<"m","a","i","l">>))

\* C15 witness: a colon-terminated text with digits in the middle and no
\* keyword was accepted
C15_Witness ==
    /\ Returned("looks_like_label")
    /\ EndsWithColon(Strip(arg.text))
    /\ ~HasKeyword(Lower(Strip(arg.text)))
    /\ HasThreeDigits(arg.text)
    /\ ret.v = TRUE

\* C16: a label candidate is rejected by the left-neighbour rule exactly when
\* it is not in the first column, the cell to its left holds a string whose
\* trimmed length exceeds 10, and the candidate does not end with ':'; a
\* candidate in column 1, one that ends with ':', or one whose left neighbour
\* is a placeholder, no string or a short string is never rejected by it.
C16_LeftNeighbourSuppression ==
    Returned("left_neighbour") =>
        LET left == <<arg.coord[1], arg.coord[2] - 1>>
        IN  ret.v <=>
                /\ arg.coord[2] > 1
                /\ ~is_merged_cell_but_not_top_left(arg.merged, left)
                /\ arg.sheet[left].t = "str"
                /\ Len(Strip(arg.sheet[left].s)) > 10
                /\ ~EndsWithColon(arg.label)

\* C16 witness: a candidate without colon was rejected because of an
\* 11-character neighbour that is the top-left of a merge region
C16_Witness ==
    /\ Returned("left_neighbour")
    /\ ret.v = TRUE
    /\ arg.merged # {}
    /\ arg.sheet[<<arg.coord[1], arg.coord[2] - 1>>] = Str(Pad(11))

\* row-major order of two coordinates
Before(a, b) == a[1] < b[1] \/ (a[1] = b[1] /\ a[2] < b[2])

\* two label candidates with the same trimmed text, a before b
Duplicates(a, b) ==
    /\ a \in Candidates /\ b \in Candidates
    /\ LabelOf(a) = LabelOf(b)
    /\ Before(a, b)

\* the label occurs once in the mapping, with the target found for cell c
MappedOnceFrom(fs, label, c) ==
    /\ Cardinality({i \in 1..Len(fs) : fs[i].label = label}) = 1
    /\ \E i \in 1..Len(fs) :
         fs[i].label = label /\ fs[i].target = TargetOf(c) /\ fs[i].src = c

\* C17 as stated: when two cells hold the same trimmed label text and each
\* resolves to an empty target, the DetectionResult contains the label once,
\* mapped to the target of the cell that comes first in row-major order.
C17_FirstOccurrenceMapped ==
    (pc = "detected" /\ fills = <<>>) =>
        \A a, b \in ContentCoords :
            (Duplicates(a, b) /\ ~\E c \in ContentCoords : Duplicates(c, a)) =>
                MappedOnceFrom(result.fields, LabelOf(a), a)

\* C17 amended: a label text occurs at most once in the mapping, and a cell
\* scanned later never replaces or changes the entry of a label that stays
\* in the mapping: the label keeps the target and the cell it was accepted
\* with.
C17_AcceptedLabelKeepsTarget ==
    [][(pc = "scanning" /\ pc' = "scanning") =>
        /\ \A i, j \in 1..Len(fields') :
             i # j => fields'[i].label # fields'[j].label
        /\ \A i \in 1..Len(fields) :
             HasLabel(fields', fields[i].label) =>
                 \E j \in 1..Len(fields') : fields'[j] = fields[i]]_vars

\* C17 witness: the scan reaches a second candidate whose label text is in
\* the mapping already
C17_Witness ==
    /\ AtCell
    /\ CurCell \in Candidates
    /\ HasLabel(fields, LabelOf(CurCell))

\* the fields of a mapping come in the row-major order of their label cells
InScanOrder(fs) == \A i, j \in 1..Len(fs) : i < j => Before(fs[i].src, fs[j].src)

\* the steps of a pass that appended a diagnostic
DiagnosedSteps(fr) ==
    SelectSeq(fr.steps, LAMBDA st : st.outcome \in {"missing", "error"})

\* C18: the fields of the accumulated mapping and of every DetectionResult
\* are in the row-major order of the cells their labels were accepted from,
\* also after a colon-terminated label has superseded an earlier one; fill
\* processes the fields in that order and appends its diagnostics in it.
C18_FieldOrderIsScanOrder ==
    [][/\ \A fs \in Mappings : InScanOrder(fs)
       /\ fills' # fills =>
            LET fr == fills'[Len(fills')]
            IN  /\ [i \in 1..Len(fr.steps) |-> fr.steps[i].label] =
                       [i \in 1..Len(result.fields) |-> result.fields[i].label]
                /\ [i \in 1..Len(fr.errors) |-> fr.errors[i][2]] =
                       [i \in 1..Len(DiagnosedSteps(fr)) |-> DiagnosedSteps(fr)[i].label]]_vars

\* C18 witness: a pass over a result of two fields, the second of which
\* superseded a label accepted before the first, appended two diagnostics
C18_Witness ==
    /\ Len(fills) >= 1
    /\ Len(result.fields) = 2
    /\ Len(FirstFill.errors) = 2
    /\ \E c \in ContentCoords :
         /\ Before(c, result.fields[1].src)
         /\ c \in Candidates
         /\ TargetTopLeft(TargetOf(c)) = TargetTopLeft(result.fields[2].target)

\* C19: every value fill writes into a cell is text: "" for None, the JSON
\* serialisation for a list or dict, the display text for a number, a boolean
\* or a string; the sample values are written as the texts Python gives.
C19_ValuesWrittenAsText ==
    Returned("fill") =>
        LET cell == ret.v.sheet[<<1, 2>>]
        IN  /\ \A c \in Coords : ret.v.sheet[c] # None => ret.v.sheet[c].t = "str"
            /\ \A i \in 1..Len(NormSamples) :
                 arg.value = NormSamples[i][1] =>
                     /\ ret.v.filled_count = 1
                     /\ cell = Str(NormSamples[i][2])
            /\ ret.v.filled_count = 0 => cell = None

\* C19 witness: a dict with a nested list was written as one text
C19_Witness ==
    /\ Returned("fill")
    /\ arg.value.t = "dict"
    /\ \E i \in 1..Len(arg.value.pairs) : arg.value.pairs[i][2].t = "list"
    /\ ret.v.filled_count = 1
    /\ ret.v.sheet[<<1, 2>>].t = "str"

\* the regions, of the merge map or live, that contain a coordinate
RegionsAround(c) ==
    {rg \in DOMAIN arg.merged_map \cup arg.merged : InRegion(c, rg)}

\* C20: for a region target present in the merge map get_writable_cell
\* returns the cell at the mapped top-left; for a single-coordinate target
\* whose live cell is a placeholder it returns the top-left of the merge
\* region containing the coordinate (the live region when the map is that of
\* the live regions); for a single-coordinate target that is no placeholder
\* it returns that cell.
C20_ResolveWritableCell ==
    Returned("get_writable_cell") =>
        LET t == arg.target
            placeholder == \E rg \in arg.merged : InRegion(t, rg) /\ t # <<rg[1], rg[2]>>
        IN  /\ (Len(t) = 4 /\ t \in DOMAIN arg.merged_map) =>
                 ret.v = arg.merged_map[t] /\ ret.v = <<t[1], t[2]>>
            /\ (Len(t) = 2 /\ placeholder) =>
                 /\ \E rg \in RegionsAround(t) : ret.v = <<rg[1], rg[2]>>
                 /\ arg.merged_map = build_merged_map(arg.merged) =>
                        \E rg \in arg.merged : InRegion(t, rg) /\ ret.v = <<rg[1], rg[2]>>
            /\ (Len(t) = 2 /\ ~placeholder) => ret.v = t

\* C20 witness: a single coordinate that became a placeholder of a region
\* the merge map does not know was resolved to that region's top-left
C20_Witness ==
    /\ Returned("get_writable_cell")
    /\ Len(arg.target) = 2
    /\ arg.merged_map = <<>>
    /\ \E rg \in arg.merged :
         InRegion(arg.target, rg) /\ ret.v = <<rg[1], rg[2]>> /\ ret.v # arg.target

\* the steps of a pass with the given outcome
StepsWith(fr, outcome) == {i \in 1..Len(fr.steps) : fr.steps[i].outcome = outcome}

\* C21: a field whose resolved cell is occupied is a silent skip: it adds one
\* to skipped_count, its cell keeps the value it had and no diagnostic is
\* appended for it; the diagnostics of a pass are those of its fields with a
\* missing label or a failed write, one each, so there are never more
\* diagnostics than skipped fields.
C21_OccupiedIsSilentSkip ==
    [][fills' # fills =>
        LET fr == fills'[Len(fills')]
        IN  /\ \A i \in StepsWith(fr, "occupied") :
                 /\ ~fr.steps[i].empty
                 /\ sheet'[fr.steps[i].cell] = sheet[fr.steps[i].cell]
            /\ fr.skipped_count = Cardinality(StepsWith(fr, "occupied"))
                                    + Len(DiagnosedSteps(fr))
            /\ Len(fr.errors) = Len(DiagnosedSteps(fr))
            /\ \A k \in 1..Len(fr.errors) :
                 fr.errors[k][2] = DiagnosedSteps(fr)[k].label
            /\ Len(fr.errors) <= fr.skipped_count]_vars

\* C21 witness: a first pass skipped an occupied target and a field with a
\* missing label: two skipped, one diagnostic
C21_Witness ==
    /\ Len(fills) = 1
    /\ StepsWith(FirstFill, "occupied") # {}
    /\ StepsWith(FirstFill, "missing") # {}
    /\ FirstFill.skipped_count = 2
    /\ Len(FirstFill.errors) = 1

\* the run's workbook could be loaded
LoadOk(rn) == rn.valid /\ (rn.entry = "cli" \/ validate_excel_file(rn.filename))

EntriesOf(fs) == {fs[i] : i \in 1..Len(fs)}

\* C23 as stated: a scan step removes an accepted field only when it records
\* the colon-terminated label of the cell it is at for the same target
\* top-left, and every target top-left in the seen set is the target of a
\* field of the mapping.
C23_SupersessionKeepsMapping ==
    [][(pc = "scanning" /\ pc' = "scanning") =>
        /\ \A e \in EntriesOf(fields) \ EntriesOf(fields') :
             /\ EndsWithColon(RStrip(LabelOf(CurCell)))
             /\ \E n \in EntriesOf(fields') :
                  /\ n.label = LabelOf(CurCell)
                  /\ n.src = CurCell
                  /\ TargetTopLeft(n.target) = TargetTopLeft(e.target)
        /\ \A t \in seen' :
             \E n \in EntriesOf(fields') : TargetTopLeft(n.target) = t]_vars

\* C24: in every fill pass each field of the result is one step that adds
\* one to exactly one counter: filled_count counts the fields written,
\* skipped_count all the others (missing label, occupied cell, failed write),
\* and filled_count + skipped_count is the number of fields.
C24_CountConservation ==
    [][fills' # fills =>
        LET fr == fills'[Len(fills')]
        IN  /\ Len(fr.steps) = Len(result.fields)
            /\ fr.filled_count = Cardinality(StepsWith(fr, "filled"))
            /\ fr.skipped_count = Cardinality(StepsWith(fr, "missing"))
                                    + Cardinality(StepsWith(fr, "occupied"))
                                    + Cardinality(StepsWith(fr, "error"))
            /\ fr.filled_count + fr.skipped_count = Len(result.fields)]_vars

\* C24 witness: a pass over two fields, one written and one whose write
\* failed
C24_Witness ==
    /\ Len(fills) >= 1
    /\ Len(result.fields) = 2
    /\ StepsWith(FirstFill, "error") # {}
    /\ FirstFill.filled_count = 1
    /\ FirstFill.skipped_count = 1

\* the cell fill resolves field i of the result to, on the sheet as it is
ResolvedCell(i) ==
    get_writable_cell(result.fields[i].target, merged, result.merged_map)

\* data has every label of the result, each with a text that is not ""
AllLabelsHaveText(dat) ==
    \A l \in LabelsOf(result) :
        l \in DOMAIN dat /\ IsStr(dat[l]) /\ dat[l].s # <<>>

\* C25 as stated: when detection has returned, the cell every field's target
\* resolves to is empty; and the first fill pass after it, with data that has
\* a non-empty text for every label, fills every field and skips none.
C25_DetectedTargetsWritable ==
    [][/\ pc = "detected" =>
            \A i \in 1..Len(result.fields) :
                is_cell_empty(sheet, merged, ResolvedCell(i))
       /\ (pc = "detected" /\ fills' # fills /\ AllLabelsHaveText(data')) =>
            LET fr == fills'[Len(fills')]
            IN  /\ fr.filled_count = Len(result.fields)
                /\ fr.skipped_count = 0]_vars

\* C26: in the first fill pass after detection no cell is written twice: the
\* cell a written field resolves to is resolved to by no other field of the
\* result, whatever text is written, the empty text and a blank text
\* included.
C26_OneWritePerCell ==
    [][(pc = "detected" /\ fills' # fills) =>
        LET fr == fills'[Len(fills')]
        IN  \A i \in StepsWith(fr, "filled") :
                /\ fr.steps[i].cell = ResolvedCell(i)
                /\ \A j \in 1..Len(result.fields) :
                     j # i => ResolvedCell(j) # fr.steps[i].cell]_vars

\* C26 witness: a first pass wrote two fields, one of them with a text that
\* leaves its cell empty
C26_Witness ==
    /\ Len(fills) = 1
    /\ FirstFill.filled_count = 2
    /\ \E i \in StepsWith(FirstFill, "filled") :
         Strip(FirstFill.steps[i].text) = <<>>

\* the placeholder cells of the sheet
Placeholders == {c \in Coords : is_merged_cell_but_not_top_left(merged, c)}

\* C27: a fill pass changes the value of a cell only if the cell is the
\* resolved writable cell of a field whose label is in data; the label cells,
\* the resolved cells of the fields whose label is missing, the placeholder
\* cells, the merge regions, the DetectionResult and the data mapping are as
\* before the pass.
C27_FillFrame ==
    [][fills' # fills =>
        LET fs == result.fields
        IN  /\ \A c \in Coords :
                 sheet'[c] # sheet[c] =>
                     \E i \in 1..Len(fs) :
                         fs[i].label \in DOMAIN data' /\ c = ResolvedCell(i)
            /\ \A i \in 1..Len(fs) :
                 /\ sheet'[fs[i].src] = sheet[fs[i].src]
                 /\ fs[i].label \notin DOMAIN data' =>
                        sheet'[ResolvedCell(i)] = sheet[ResolvedCell(i)]
            /\ \A c \in Placeholders : sheet'[c] = sheet[c]
            /\ merged' = merged
            /\ result' = result
            /\ data # NoData => data' = data]_vars

\* C27 witness: on a sheet with a merge region a pass wrote one field and
\* skipped a field whose label is missing from data
C27_Witness ==
    /\ Len(fills) = 1
    /\ merged # {}
    /\ StepsWith(FirstFill, "filled") # {}
    /\ StepsWith(FirstFill, "missing") # {}

\* C28: while the sheet's merge regions are those the merge map was built
\* from, the cell get_writable_cell resolves a field's target to is never a
\* placeholder, for a region target and for a single coordinate alike.
C28_ResolvedCellIsNoPlaceholder ==
    result # NoResult =>
        /\ result.merged_map = build_merged_map(merged)
        /\ \A i \in 1..Len(result.fields) :
             /\ ResolvedCell(i) \notin Placeholders
             /\ IsRange(result.fields[i].target) =>
                    result.fields[i].target \in merged

\* C28 witness: a result whose target is a single coordinate that is a
\* placeholder, resolved to the top-left of the region around it
C28_Witness ==
    /\ result # NoResult
    /\ \E i \in 1..Len(result.fields) :
         /\ ~IsRange(result.fields[i].target)
         /\ result.fields[i].target \in Placeholders
         /\ ResolvedCell(i) # result.fields[i].target
         /\ \E rg \in merged : ResolvedCell(i) = RegionTopLeft(rg)

\* the attempts generate_data has made
Attempts == gen.tried

\* C29: generate_data with no labels returns the empty mapping without a
\* request; otherwise it makes at most max_retries attempts; it returns the
\* parsed data of the first attempt whose response parses; when all
\* max_retries attempts failed it raises AIGenerationError and returns
\* nothing; the first attempt is sent the estimated token limit, and the limit
\* of a later attempt is 1.5 times that of the attempt before it when that
\* one failed on its JSON, and the same limit when it failed on the API.
C29_BoundedRetry ==
    gen # NoGen =>
        /\ gen.field_count = 0 =>
             /\ gen.at = "returned" /\ gen.value = Dict(<<>>)
             /\ gen.calls = 0 /\ Attempts = <<>>
        /\ Len(Attempts) <= max_retries
        /\ gen.calls <= 2 * Len(Attempts)
        /\ \A k \in 1..Len(Attempts) :
             /\ k < Len(Attempts) => Attempts[k].how # "ok"
             /\ k = 1 => Attempts[k].limit = estimate_tokens(gen.field_count)
             /\ k > 1 =>
                  IF Attempts[k - 1].how = "JSONDecodeError"
                  THEN 2 * Attempts[k].limit = 3 * Attempts[k - 1].limit
                  ELSE Attempts[k].limit = Attempts[k - 1].limit
        /\ (gen.at = "loop") =>
             /\ Len(Attempts) < max_retries
             /\ \A k \in 1..Len(Attempts) : Attempts[k].how # "ok"
        /\ (gen.at = "returned" /\ gen.field_count > 0) =>
             /\ Attempts # <<>>
             /\ Attempts[Len(Attempts)].how = "ok"
             /\ gen.value = ParseResponse(Attempts[Len(Attempts)].content).v
             /\ gen.exc = "none"
        /\ gen.at = "raised" =>
             /\ gen.exc = "AIGenerationError"
             /\ Len(Attempts) = max_retries
             /\ \A k \in 1..Len(Attempts) : Attempts[k].how # "ok"
             /\ gen.value = None

\* C29 witness: with more labels than the base limit covers, two attempts
\* failed, the first on its JSON and the second on the API, and the third
\* one returned data
C29_Witness ==
    /\ gen # NoGen
    /\ gen.at = "returned"
    /\ gen.field_count > 12
    /\ Len(Attempts) = 3
    /\ Attempts[1].how = "JSONDecodeError"
    /\ Attempts[2].how = "Exception"
    /\ Attempts[3].limit > Attempts[1].limit

\* C30 as stated: a run of /process, /detect or /fill in which the code
\* signalled status 400 answers 400, and a run answers 500 only after a
\* failure the code did not signal itself (the workbook does not load, the
\* save fails).
C30_ClientErrorsKeepStatus ==
    (run # NoRun /\ run.at = "done" /\ run.entry # "cli") =>
        /\ run.signalled = 400 => run.status = 400
        /\ run.status = 500 => run.raised = "Exception"

====
